---- MODULE Spec2Model ----
(***************************************************************************)
(* Model of src/src/KeyBindingsManager.ts: the key-combo matcher           *)
(* isKeyComboMatch and the action resolver of KeyBindingsManager.          *)
(*                                                                         *)
(* Strings that are compared case-insensitively (key labels) are modelled  *)
(* as sequences of one-character strings, so that toLowerCase is computed  *)
(* character by character.  An optional field of a KeyCombo is a sequence  *)
(* of length 0 (absent / undefined) or 1 (present).                        *)
(***************************************************************************)
EXTENDS Naturals, Sequences, FiniteSets

VARIABLES
    isMac,              \* Keyboard.isMac, the platform flag
    bindingsProviders,  \* KeyBindingsManager.bindingsProviders
    pc,                 \* "call" | "matched" (matcher); "idle" | "resolved" (manager)
    ev,                 \* the key event of the last call
    combo,              \* the KeyCombo of the last isKeyComboMatch call
    ctx,                \* the UI context of the last get*Action call
    matched,            \* what the last isKeyComboMatch call returned
    ret                 \* what the last get*Action call returned

vars == <<isMac, bindingsProviders, pc, ev, combo, ctx, matched, ret>>

----------------------------------------------------------------------------
(* Bounds *)

\* Providers the manager holds, and bindings all providers hold together.
MaxProviders == 3
MaxBindings == 3

----------------------------------------------------------------------------
(* Strings *)

UpperCase == <<"A","B","C","D","E","F","G","H","I","J","K","L","M",
               "N","O","P","Q","R","S","T","U","V","W","X","Y","Z">>
LowerCase == <<"a","b","c","d","e","f","g","h","i","j","k","l","m",
               "n","o","p","q","r","s","t","u","v","w","x","y","z">>

toLowerCaseChar(c) ==
    IF \E i \in 1..Len(UpperCase) : UpperCase[i] = c
    THEN LowerCase[CHOOSE i \in 1..Len(UpperCase) : UpperCase[i] = c]
    ELSE c

toLowerCase(s) == [i \in 1..Len(s) |-> toLowerCaseChar(s[i])]

\* Key labels a KeyboardEvent reports, and a KeyCombo names.
KeyLower_k == <<"k">>
KeyUpper_K == <<"K">>
KeyEscape == <<"E","s","c","a","p","e">>
KeyEscapeLower == <<"e","s","c","a","p","e">>
KeySlash == <<"/">>

KeyLabels == {KeyLower_k, KeyUpper_K, KeyEscape, KeyEscapeLower, KeySlash}

----------------------------------------------------------------------------
(* KeyCombo and KeyboardEvent *)

Absent == <<>>
Some(v) == <<v>>
OptBool == {Absent, Some(TRUE), Some(FALSE)}
OptKey == {Absent} \cup {Some(k) : k \in KeyLabels}

\* x ?? d
OrElse(x, d) == IF x = Absent THEN d ELSE x[1]

KeyCombo == [key : OptKey, ctrlOrCmd : OptBool, altKey : OptBool,
             ctrlKey : OptBool, metaKey : OptBool, shiftKey : OptBool]

KeyboardEvent == [key : KeyLabels, altKey : BOOLEAN, ctrlKey : BOOLEAN,
                  metaKey : BOOLEAN, shiftKey : BOOLEAN]

Ev(k, meta, ctrl, alt, shift) ==
    [key |-> k, metaKey |-> meta, ctrlKey |-> ctrl, altKey |-> alt,
     shiftKey |-> shift]

----------------------------------------------------------------------------
(* isKeyComboMatch *)

\* keyLabelTest comparing exactly also when shift is held.
keyLabelTest_NoLowerCase(e, c) ==
    IF c.key # Absent THEN e.key = c.key[1] ELSE TRUE

\* keyLabelTest comparing in lower case also when shift is not held.
keyLabelTest_AlwaysLowerCase(e, c) ==
    IF c.key # Absent
    THEN toLowerCase(e.key) = toLowerCase(c.key[1])
    ELSE TRUE

\* The key-label test: FALSE when the function returns false at it.
keyLabelTest(e, c) ==
    IF c.key # Absent
    THEN IF e.shiftKey
         THEN toLowerCase(e.key) = toLowerCase(c.key[1])
         ELSE e.key = c.key[1]
    ELSE TRUE

comboCtrl(c) == OrElse(c.ctrlKey, FALSE)
comboAlt(c) == OrElse(c.altKey, FALSE)
comboShift(c) == OrElse(c.shiftKey, FALSE)
comboMeta(c) == OrElse(c.metaKey, FALSE)

\* ctrlOrCmdOnMac accepting either primary modifier.
ctrlOrCmdOnMac_CtrlToo(e, c) ==
    ~ (\/ ~(e.metaKey \/ e.ctrlKey)
       \/ e.altKey # comboAlt(c)
       \/ e.shiftKey # comboShift(c))

ctrlOrCmdOnMac(e, c) ==
    ~ (\/ ~e.metaKey
       \/ e.ctrlKey # comboCtrl(c)
       \/ e.altKey # comboAlt(c)
       \/ e.shiftKey # comboShift(c))

\* ctrlOrCmdOnPC leaving the meta modifier unchecked.
ctrlOrCmdOnPC_MetaUnchecked(e, c) ==
    ~ (\/ ~e.ctrlKey
       \/ e.altKey # comboAlt(c)
       \/ e.shiftKey # comboShift(c))

ctrlOrCmdOnPC(e, c) ==
    ~ (\/ ~e.ctrlKey
       \/ e.metaKey # comboMeta(c)
       \/ e.altKey # comboAlt(c)
       \/ e.shiftKey # comboShift(c))

\* strictModifiers letting a held shift pass.
strictModifiers_ShiftLenient(e, c) ==
    ~ (\/ e.metaKey # comboMeta(c)
       \/ e.ctrlKey # comboCtrl(c)
       \/ e.altKey # comboAlt(c)
       \/ (~e.shiftKey /\ comboShift(c)))

strictModifiers(e, c) ==
    ~ (\/ e.metaKey # comboMeta(c)
       \/ e.ctrlKey # comboCtrl(c)
       \/ e.altKey # comboAlt(c)
       \/ e.shiftKey # comboShift(c))

\* isKeyComboMatch without the return that ends the ctrlOrCmd branch.
isKeyComboMatch_FallThrough(e, c, onMac) ==
    IF ~keyLabelTest(e, c) THEN FALSE
    ELSE IF OrElse(c.ctrlOrCmd, FALSE)
              /\ ~(IF onMac THEN ctrlOrCmdOnMac(e, c) ELSE ctrlOrCmdOnPC(e, c))
         THEN FALSE
         ELSE strictModifiers(e, c)

isKeyComboMatch(e, c, onMac) ==
    IF ~keyLabelTest(e, c) THEN FALSE
    ELSE IF OrElse(c.ctrlOrCmd, FALSE)
         THEN IF onMac THEN ctrlOrCmdOnMac(e, c) ELSE ctrlOrCmdOnPC(e, c)
         ELSE strictModifiers(e, c)

----------------------------------------------------------------------------
(* The matcher on its own: every event, combo and platform *)

NoEvent == [key |-> KeySlash, altKey |-> FALSE, ctrlKey |-> FALSE,
            metaKey |-> FALSE, shiftKey |-> FALSE]
NoCombo == [key |-> Absent, ctrlOrCmd |-> Absent, altKey |-> Absent,
            ctrlKey |-> Absent, metaKey |-> Absent, shiftKey |-> Absent]
Undefined == "undefined"

MatchInit ==
    /\ isMac \in BOOLEAN
    /\ ev \in KeyboardEvent
    /\ combo \in KeyCombo
    /\ pc = "call"
    /\ matched = FALSE
    /\ bindingsProviders = <<>>
    /\ ctx = "none"
    /\ ret = Undefined

CallIsKeyComboMatch ==
    /\ pc = "call"
    /\ matched' = isKeyComboMatch(ev, combo, isMac)
    /\ pc' = "matched"
    /\ UNCHANGED <<isMac, bindingsProviders, ev, combo, ctx, ret>>

MatchNext == CallIsKeyComboMatch

MatchSpec == MatchInit /\ [][MatchNext]_vars

----------------------------------------------------------------------------
(* Action enumerations *)

MessageComposerAction ==
    {"Send", "SelectPrevSendHistory", "SelectNextSendHistory",
     "EditPrevMessage", "EditNextMessage", "CancelEditing", "FormatBold",
     "FormatItalics", "FormatQuote", "EditUndo", "EditRedo", "NewLine",
     "MoveCursorToStart", "MoveCursorToEnd"}

AutocompleteAction ==
    {"ApplySelection", "Cancel", "PrevSelection", "NextSelection"}

RoomListAction ==
    {"ClearSearch", "PrevRoom", "NextRoom", "SelectRoom", "CollapseSection",
     "ExpandSection"}

RoomAction ==
    {"FocusRoomSearch", "ScrollUp", "RoomScrollDown", "DismissReadMarker",
     "JumpToOldestUnread", "UploadFile", "FocusSearch", "JumpToFirstMessage",
     "JumpToLatestMessage"}

NavigationAction ==
    {"ToggleRoomSidePanel", "ToggleUserMenu", "ToggleShortCutDialog",
     "GoToHome", "SelectPrevRoom", "SelectNextRoom", "SelectPrevUnreadRoom",
     "SelectNextUnreadRoom"}

----------------------------------------------------------------------------
(* Binding providers *)

\* One field per getter of IKeyBindingsProvider, holding the list the getter
\* returns when it is called.
Getters == {"getMessageComposerBindings", "getAutocompleteBindings",
            "getRoomListBindings", "getRoomBindings",
            "getNavigationBindings"}

\* The action type of each getter's bindings.
ActionsOf(g) ==
    CASE g = "getMessageComposerBindings" -> MessageComposerAction
      [] g = "getAutocompleteBindings" -> AutocompleteAction
      [] g = "getRoomListBindings" -> RoomListAction
      [] g = "getRoomBindings" -> RoomAction
      [] g = "getNavigationBindings" -> NavigationAction

KeyBinding(a, c) == [action |-> a, keyCombo |-> c]

EmptyProvider == [g \in Getters |-> <<>>]

\* The bindings the providers of the model hold: for each getter, one action
\* bound to the primary modifier with "k" and one bound to ctrl with "k".
\* ctrl+k matches both off Mac and the second on Mac; meta+k matches the
\* first on Mac and neither off Mac.
ComboCtrlOrCmdK == [NoCombo EXCEPT !.key = Some(KeyLower_k),
                                   !.ctrlOrCmd = Some(TRUE)]
ComboCtrlK == [NoCombo EXCEPT !.key = Some(KeyLower_k),
                              !.ctrlKey = Some(TRUE)]

BoundBindings(g) ==
    CASE g = "getMessageComposerBindings" ->
            {KeyBinding("FormatBold", ComboCtrlOrCmdK),
             KeyBinding("FormatItalics", ComboCtrlK)}
      [] g = "getAutocompleteBindings" ->
            {KeyBinding("ApplySelection", ComboCtrlOrCmdK),
             KeyBinding("Cancel", ComboCtrlK)}
      [] g = "getRoomListBindings" ->
            {KeyBinding("ClearSearch", ComboCtrlOrCmdK),
             KeyBinding("SelectRoom", ComboCtrlK)}
      [] g = "getRoomBindings" ->
            {KeyBinding("FocusRoomSearch", ComboCtrlOrCmdK),
             KeyBinding("UploadFile", ComboCtrlK)}
      [] g = "getNavigationBindings" ->
            {KeyBinding("ToggleUserMenu", ComboCtrlOrCmdK),
             KeyBinding("GoToHome", ComboCtrlK)}

\* The key events the resolver is asked about: ctrl+k and meta+k.
ResolverEvents ==
    {Ev(KeyLower_k, FALSE, TRUE, FALSE, FALSE),
     Ev(KeyLower_k, TRUE, FALSE, FALSE, FALSE)}

\* A provider holding one binding.
CustomProviders ==
    {[EmptyProvider EXCEPT ![gb[1]] = <<gb[2]>>] :
        gb \in UNION {{<<g, b>> : b \in BoundBindings(g)} : g \in Getters}}

\* defaultBindingsProvider: its bindings are those of KeyBindingsDefaults at
\* the time of the call; the model starts it with at most one.
DefaultProviders == {EmptyProvider} \cup CustomProviders

\* The number of bindings the providers hold, all lists together.
ProviderSize(p) ==
    Len(p.getMessageComposerBindings) + Len(p.getAutocompleteBindings)
    + Len(p.getRoomListBindings) + Len(p.getRoomBindings)
    + Len(p.getNavigationBindings)

RECURSIVE TotalBindings(_)
TotalBindings(ps) ==
    IF ps = <<>> THEN 0 ELSE ProviderSize(Head(ps)) + TotalBindings(Tail(ps))

----------------------------------------------------------------------------
(* KeyBindingsManager *)

\* find returning the last matching binding.
find_Last(bindings, e) ==
    LET hits == {i \in 1..Len(bindings) :
                    isKeyComboMatch(e, bindings[i].keyCombo, isMac)}
    IN  IF hits = {} THEN Absent
        ELSE Some(bindings[CHOOSE i \in hits : \A j \in hits : i >= j])

\* find falling back to the first binding of the list.
find_OrFirst(bindings, e) ==
    LET hits == {i \in 1..Len(bindings) :
                    isKeyComboMatch(e, bindings[i].keyCombo, isMac)}
    IN  IF hits = {}
        THEN IF bindings = <<>> THEN Absent ELSE Some(bindings[1])
        ELSE Some(bindings[CHOOSE i \in hits : \A j \in hits : i <= j])

\* bindings.find(it => isKeyComboMatch(ev, it.keyCombo, isMac)): the first
\* matching binding, Absent (undefined) when there is none.
find(bindings, e) ==
    LET hits == {i \in 1..Len(bindings) :
                    isKeyComboMatch(e, bindings[i].keyCombo, isMac)}
    IN  IF hits = {} THEN Absent
        ELSE Some(bindings[CHOOSE i \in hits : \A j \in hits : i <= j])

\* getAction going through the getters from the last to the first.
RECURSIVE getAction_LastProviderWins(_, _)
getAction_LastProviderWins(getters, e) ==
    IF getters = <<>> THEN Undefined
    ELSE LET n == Len(getters)
             binding == find(getters[n], e)
         IN  IF binding # Absent THEN binding[1].action
             ELSE getAction_LastProviderWins(SubSeq(getters, 1, n - 1), e)

\* getAction returning after the first getter, whatever it found.
getAction_FirstProviderOnly(getters, e) ==
    IF getters = <<>> THEN Undefined
    ELSE LET binding == find(Head(getters), e)
         IN  IF binding # Absent THEN binding[1].action ELSE Undefined

RECURSIVE getAction(_, _)
getAction(getters, e) ==
    IF getters = <<>> THEN Undefined
    ELSE LET binding == find(Head(getters), e)
         IN  IF binding # Absent THEN binding[1].action
             ELSE getAction(Tail(getters), e)

map(g) == [i \in 1..Len(bindingsProviders) |-> bindingsProviders[i][g]]

getMessageComposerAction(e) == getAction(map("getMessageComposerBindings"), e)
getAutocompleteAction(e) == getAction(map("getAutocompleteBindings"), e)
getRoomListAction(e) == getAction(map("getRoomListBindings"), e)
\* getRoomAction reading the room list getter.
getRoomAction_RoomListGetter(e) == getAction(map("getRoomListBindings"), e)

getRoomAction(e) == getAction(map("getRoomBindings"), e)
getNavigationAction(e) == getAction(map("getNavigationBindings"), e)

----------------------------------------------------------------------------
(* The manager and its callers *)

Init ==
    /\ isMac \in BOOLEAN
    /\ bindingsProviders \in {<<d>> : d \in DefaultProviders}
    /\ pc = "idle"
    /\ ev = NoEvent
    /\ combo = NoCombo
    /\ ctx = "none"
    /\ matched = FALSE
    /\ ret = Undefined

\* manager.bindingsProviders = [custom, ...manager.bindingsProviders]
PrependProvider ==
    /\ pc = "idle"
    /\ Len(bindingsProviders) < MaxProviders
    /\ TotalBindings(bindingsProviders) < MaxBindings
    /\ \E custom \in CustomProviders :
          bindingsProviders' = <<custom>> \o bindingsProviders
    /\ UNCHANGED <<isMac, pc, ev, combo, ctx, matched, ret>>

\* manager.bindingsProviders = []
ClearProviders ==
    /\ pc = "idle"
    /\ bindingsProviders # <<>>
    /\ bindingsProviders' = <<>>
    /\ UNCHANGED <<isMac, pc, ev, combo, ctx, matched, ret>>

\* The getter g of provider i starts to return one more binding.
AddBinding ==
    /\ pc = "idle"
    /\ TotalBindings(bindingsProviders) < MaxBindings
    /\ \E i \in 1..Len(bindingsProviders), g \in Getters :
         \E b \in BoundBindings(g) :
            bindingsProviders' =
                [bindingsProviders EXCEPT ![i][g] = Append(@, b)]
    /\ UNCHANGED <<isMac, pc, ev, combo, ctx, matched, ret>>

GetMessageComposerAction ==
    /\ pc = "idle"
    /\ \E e \in ResolverEvents :
          /\ ev' = e
          /\ ret' = getMessageComposerAction(e)
    /\ ctx' = "MessageComposer"
    /\ pc' = "resolved"
    /\ UNCHANGED <<isMac, bindingsProviders, combo, matched>>

GetAutocompleteAction ==
    /\ pc = "idle"
    /\ \E e \in ResolverEvents :
          /\ ev' = e
          /\ ret' = getAutocompleteAction(e)
    /\ ctx' = "Autocomplete"
    /\ pc' = "resolved"
    /\ UNCHANGED <<isMac, bindingsProviders, combo, matched>>

GetRoomListAction ==
    /\ pc = "idle"
    /\ \E e \in ResolverEvents :
          /\ ev' = e
          /\ ret' = getRoomListAction(e)
    /\ ctx' = "RoomList"
    /\ pc' = "resolved"
    /\ UNCHANGED <<isMac, bindingsProviders, combo, matched>>

GetRoomAction ==
    /\ pc = "idle"
    /\ \E e \in ResolverEvents :
          /\ ev' = e
          /\ ret' = getRoomAction(e)
    /\ ctx' = "Room"
    /\ pc' = "resolved"
    /\ UNCHANGED <<isMac, bindingsProviders, combo, matched>>

GetNavigationAction ==
    /\ pc = "idle"
    /\ \E e \in ResolverEvents :
          /\ ev' = e
          /\ ret' = getNavigationAction(e)
    /\ ctx' = "Navigation"
    /\ pc' = "resolved"
    /\ UNCHANGED <<isMac, bindingsProviders, combo, matched>>

\* The caller has used the result; the next key event may be handled.
Return ==
    /\ pc = "resolved"
    /\ pc' = "idle"
    /\ ev' = NoEvent
    /\ ctx' = "none"
    /\ ret' = Undefined
    /\ UNCHANGED <<isMac, bindingsProviders, combo, matched>>

Next ==
    \/ PrependProvider
    \/ ClearProviders
    \/ AddBinding
    \/ GetMessageComposerAction
    \/ GetAutocompleteAction
    \/ GetRoomListAction
    \/ GetRoomAction
    \/ GetNavigationAction
    \/ Return

Spec == Init /\ [][Next]_vars

----------------------------------------------------------------------------
(* Properties of the action resolver, checked under Spec *)

ResolvedCall == pc = "resolved"

GetterOf(c) ==
    CASE c = "MessageComposer" -> "getMessageComposerBindings"
      [] c = "Autocomplete" -> "getAutocompleteBindings"
      [] c = "RoomList" -> "getRoomListBindings"
      [] c = "Room" -> "getRoomBindings"
      [] c = "Navigation" -> "getNavigationBindings"

AllActions ==
    MessageComposerAction \cup AutocompleteAction \cup RoomListAction
    \cup RoomAction \cup NavigationAction

\* Provider i's binding list for the context of the last call, the places of
\* its bindings that match the event of the last call, and their actions.
ListOf(i) == bindingsProviders[i][GetterOf(ctx)]
Matches(i) ==
    {n \in 1..Len(ListOf(i)) : isKeyComboMatch(ev, ListOf(i)[n].keyCombo, isMac)}
HasMatch(i) == Matches(i) # {}
MatchActions(i) == {ListOf(i)[n].action : n \in Matches(i)}
EarliestMatch(i) == CHOOSE n \in Matches(i) : \A m \in Matches(i) : n <= m
Providers == 1..Len(bindingsProviders)

\* C1 as stated: whenever P1 stands before P2 and both hold a matching
\* binding for the context, the result is the action of a matching binding of
\* P1.
C1_AsStated ==
    ResolvedCall =>
        \A i \in Providers : \A j \in Providers :
            (i < j /\ HasMatch(i) /\ HasMatch(j)) => ret \in MatchActions(i)

\* C1 amended: whenever P1 stands before P2, both hold a matching binding for
\* the context and no provider before P1 holds one, the result is the action
\* of a matching binding of P1, and is an action of P2 only if P1 binds that
\* action too.
C1_ProviderPrecedence ==
    ResolvedCall =>
        \A i \in Providers : \A j \in Providers :
            (/\ i < j /\ HasMatch(i) /\ HasMatch(j)
             /\ \A h \in 1..(i - 1) : ~HasMatch(h))
                => /\ ret \in MatchActions(i)
                   /\ ret \notin (MatchActions(j) \ MatchActions(i))

C1_Witness ==
    /\ ResolvedCall
    /\ Len(bindingsProviders) >= 2
    /\ HasMatch(1) /\ HasMatch(2)
    /\ MatchActions(1) \cap MatchActions(2) = {}
    /\ ret \in MatchActions(1)

\* C2: when a provider's list for the context holds two or more matching
\* bindings and no provider before it holds a match, the result is the action
\* of the earliest-listed matching binding of that provider.
C2_WithinProviderOrder ==
    ResolvedCall =>
        \A i \in Providers :
            (/\ Cardinality(Matches(i)) >= 2
             /\ \A h \in 1..(i - 1) : ~HasMatch(h))
                => ret = ListOf(i)[EarliestMatch(i)].action

C2_Witness ==
    /\ ResolvedCall
    /\ \E i \in Providers :
          /\ Cardinality(Matches(i)) >= 2
          /\ Cardinality(MatchActions(i)) >= 2
          /\ \A h \in 1..(i - 1) : ~HasMatch(h)
          /\ ret = ListOf(i)[EarliestMatch(i)].action

\* C3: when no binding of any provider's list for the context matches the
\* event (also with no provider, or with empty lists), the result is
\* undefined, which is a member of no action enumeration.
C3_NoMatch ==
    (ResolvedCall /\ \A i \in Providers : ~HasMatch(i))
        => (ret = Undefined /\ ret \notin AllActions)

C3_Witness ==
    /\ ResolvedCall
    /\ bindingsProviders # <<>>
    /\ \E i \in Providers : ListOf(i) # <<>>
    /\ \A i \in Providers : ~HasMatch(i)
    /\ ret = Undefined

\* C4: with a custom provider ahead of the default ones, (a) if a binding of
\* the custom provider for the context matches, the result is the action of
\* the custom provider's earliest matching binding, and (b) if none does, the
\* result is what the manager holding only the default providers returns for
\* the event, undefined included.
C4_OverrideFallThrough ==
    (ResolvedCall /\ bindingsProviders # <<>>) =>
        LET defaults == Tail(bindingsProviders)
            defaultGetters ==
                [i \in 1..Len(defaults) |-> defaults[i][GetterOf(ctx)]]
        IN  /\ HasMatch(1) => ret = ListOf(1)[EarliestMatch(1)].action
            /\ ~HasMatch(1) => ret = getAction(defaultGetters, ev)

C4_Witness ==
    /\ ResolvedCall
    /\ Len(bindingsProviders) >= 2
    /\ ListOf(1) # <<>>
    /\ ~HasMatch(1)
    /\ HasMatch(2)
    /\ ret = ListOf(2)[EarliestMatch(2)].action

\* The providers with the lists of every getter but that of the context of
\* the last call replaced by those of the provider other.
WithOtherLists(other) ==
    [i \in Providers |->
        [g \in Getters |->
            IF g = GetterOf(ctx) THEN bindingsProviders[i][g] ELSE other[g]]]

\* The bindings a provider holds under a getter other than that of the
\* context of the last call.
ForeignBindings ==
    UNION {{bindingsProviders[i][g][n] : n \in 1..Len(bindingsProviders[i][g])} :
              <<i, g>> \in Providers \X (Getters \ {GetterOf(ctx)})}

\* What the other four contexts' lists are replaced by: nothing, or one
\* binding under every getter.
OtherLists ==
    {EmptyProvider,
     [g \in Getters |-> <<CHOOSE b \in BoundBindings(g) : TRUE>>]}

\* C11: a get*Action call consults only the binding lists of its own context:
\* its result is what the same call gives when the lists of the other four
\* contexts are emptied or replaced, it is undefined or an action of the
\* context's own enumeration, and it is never the action of a binding that is
\* held only under another context.
C11_ContextIsolation ==
    ResolvedCall =>
        /\ \A other \in OtherLists :
              LET ps == WithOtherLists(other)
              IN  ret = getAction([i \in Providers |-> ps[i][GetterOf(ctx)]], ev)
        /\ ret \in ActionsOf(GetterOf(ctx)) \cup {Undefined}
        /\ \A b \in ForeignBindings :
              (\A i \in Providers : \A n \in 1..Len(ListOf(i)) :
                    ListOf(i)[n].action # b.action)
                  => ret # b.action

C11_Witness ==
    /\ ResolvedCall
    /\ \A i \in Providers : ListOf(i) = <<>>
    /\ \E b \in ForeignBindings : isKeyComboMatch(ev, b.keyCombo, isMac)
    /\ ret = Undefined

----------------------------------------------------------------------------
(* Properties of isKeyComboMatch, checked under MatchSpec *)

\* Equality of key labels up to the case of their letters, stated letter by
\* letter and without toLowerCase.
SameLetter(a, b) ==
    \/ a = b
    \/ \E i \in 1..Len(UpperCase) : {a, b} = {UpperCase[i], LowerCase[i]}

EqualIgnoringCase(s, t) ==
    /\ Len(s) = Len(t)
    /\ \A i \in 1..Len(s) : SameLetter(s[i], t[i])

Returned == pc = "matched"

OnlyKey(c) ==
    /\ c.key # Absent
    /\ c.ctrlOrCmd = Absent /\ c.altKey = Absent /\ c.ctrlKey = Absent
    /\ c.metaKey = Absent /\ c.shiftKey = Absent

OnlyKeyAndShift(c) ==
    /\ c.key # Absent
    /\ c.ctrlOrCmd = Absent /\ c.altKey = Absent /\ c.ctrlKey = Absent
    /\ c.metaKey = Absent /\ c.shiftKey = Some(TRUE)

NoModifierBut(e, shift) ==
    ~e.metaKey /\ ~e.ctrlKey /\ ~e.altKey /\ e.shiftKey = shift

\* C5 as stated: a combo with only key set matches a shifted event iff the
\* key labels are equal case-insensitively.
C5_AsStated ==
    (Returned /\ OnlyKey(combo) /\ ev.shiftKey)
        => (matched <=> EqualIgnoringCase(ev.key, combo.key[1]))

\* C5 amended: a combo with only key set never matches a shifted event; a
\* combo with only key and shiftKey: true set matches an event that holds
\* shift and no other modifier iff the key labels are equal
\* case-insensitively.
C5_ShiftedKeyMatch ==
    /\ (Returned /\ OnlyKey(combo) /\ ev.shiftKey) => ~matched
    /\ (Returned /\ OnlyKeyAndShift(combo) /\ NoModifierBut(ev, TRUE))
           => (matched <=> EqualIgnoringCase(ev.key, combo.key[1]))

C5_Witness ==
    /\ Returned /\ matched
    /\ OnlyKeyAndShift(combo) /\ combo.key = Some(KeyLower_k)
    /\ ev = Ev(KeyUpper_K, FALSE, FALSE, FALSE, TRUE)

\* C6 as stated: a combo with only key set matches an event without shift
\* iff the key labels are equal by exact comparison.
C6_AsStated ==
    (Returned /\ OnlyKey(combo) /\ ~ev.shiftKey)
        => (matched <=> ev.key = combo.key[1])

\* C6 amended: a combo with only key set matches an event that holds no
\* modifier at all iff the key labels are equal by exact, case-sensitive
\* comparison; it matches no event that holds meta, ctrl or alt.
C6_UnshiftedKeyMatch ==
    /\ (Returned /\ OnlyKey(combo) /\ NoModifierBut(ev, FALSE))
           => (matched <=> ev.key = combo.key[1])
    /\ (Returned /\ OnlyKey(combo) /\ ~ev.shiftKey
            /\ (ev.metaKey \/ ev.ctrlKey \/ ev.altKey)) => ~matched

C6_Witness ==
    /\ Returned /\ ~matched
    /\ OnlyKey(combo) /\ combo.key = Some(KeyLower_k)
    /\ ev = Ev(KeyUpper_K, FALSE, FALSE, FALSE, FALSE)

\* The flag a combo gives, FALSE when it gives none.
Flag(x) == x = Some(TRUE)

\* C7: with ctrlOrCmd true on Mac, a match implies that the event holds meta
\* and that its ctrl, alt and shift equal the combo's flags (absent = false);
\* ctrl without meta never matches; {key k, ctrlOrCmd} matches "k" with meta
\* only and does not match "k" with ctrl only.
C7_CtrlOrCmdOnMac ==
    (Returned /\ isMac /\ combo.ctrlOrCmd = Some(TRUE)) =>
        /\ matched => /\ ev.metaKey
                      /\ ev.ctrlKey = Flag(combo.ctrlKey)
                      /\ ev.altKey = Flag(combo.altKey)
                      /\ ev.shiftKey = Flag(combo.shiftKey)
        /\ (ev.ctrlKey /\ ~ev.metaKey) => ~matched
        /\ combo = [NoCombo EXCEPT !.key = Some(KeyLower_k),
                                   !.ctrlOrCmd = Some(TRUE)] =>
              /\ ev = Ev(KeyLower_k, TRUE, FALSE, FALSE, FALSE) => matched
              /\ ev = Ev(KeyLower_k, FALSE, TRUE, FALSE, FALSE) => ~matched

C7_Witness ==
    /\ Returned /\ isMac /\ matched
    /\ combo = [NoCombo EXCEPT !.key = Some(KeyLower_k),
                               !.ctrlOrCmd = Some(TRUE)]
    /\ ev = Ev(KeyLower_k, TRUE, FALSE, FALSE, FALSE)

\* C8: with ctrlOrCmd true off Mac, a match implies that the event holds ctrl
\* and that its meta, alt and shift equal the combo's flags (absent = false);
\* meta without ctrl never matches.
C8_CtrlOrCmdOnPC ==
    (Returned /\ ~isMac /\ combo.ctrlOrCmd = Some(TRUE)) =>
        /\ matched => /\ ev.ctrlKey
                      /\ ev.metaKey = Flag(combo.metaKey)
                      /\ ev.altKey = Flag(combo.altKey)
                      /\ ev.shiftKey = Flag(combo.shiftKey)
        /\ (ev.metaKey /\ ~ev.ctrlKey) => ~matched

C8_Witness ==
    /\ Returned /\ ~isMac /\ matched
    /\ combo = [NoCombo EXCEPT !.key = Some(KeyLower_k),
                               !.ctrlOrCmd = Some(TRUE),
                               !.metaKey = Some(TRUE)]
    /\ ev = Ev(KeyLower_k, TRUE, TRUE, FALSE, FALSE)

\* C9: without ctrlOrCmd (absent or false), on either platform, the result
\* is true iff the key-label test passes (skipped without key) and the
\* event's meta, ctrl, alt and shift each equal the combo's flag (absent =
\* false); {key Escape} does not match shift+Escape, and the combo with
\* nothing set matches every event that holds no modifier.
C9_StrictModifiers ==
    (Returned /\ combo.ctrlOrCmd # Some(TRUE)) =>
        /\ matched <=>
              /\ \/ combo.key = Absent
                 \/ IF ev.shiftKey
                    THEN EqualIgnoringCase(ev.key, combo.key[1])
                    ELSE ev.key = combo.key[1]
              /\ ev.metaKey = Flag(combo.metaKey)
              /\ ev.ctrlKey = Flag(combo.ctrlKey)
              /\ ev.altKey = Flag(combo.altKey)
              /\ ev.shiftKey = Flag(combo.shiftKey)
        /\ (combo = [NoCombo EXCEPT !.key = Some(KeyEscape)]
                /\ ev.key = KeyEscape /\ ev.shiftKey) => ~matched
        /\ (combo = NoCombo /\ NoModifierBut(ev, FALSE)) => matched

C9_Witness ==
    /\ Returned /\ ~matched
    /\ combo = [NoCombo EXCEPT !.key = Some(KeyEscape)]
    /\ ev = Ev(KeyEscape, FALSE, FALSE, FALSE, TRUE)

\* C10: with ctrlOrCmd true the combo's flag for the platform's primary
\* modifier is ignored: on Mac every combo differing only in metaKey, off Mac
\* every combo differing only in ctrlKey, gives the result that was
\* returned; the flag for the other platform's modifier is the value the
\* event's modifier equals in every match.
C10_PrimaryFlagIgnored ==
    (Returned /\ combo.ctrlOrCmd = Some(TRUE)) =>
        /\ isMac =>
              /\ \A m \in OptBool :
                    isKeyComboMatch(ev, [combo EXCEPT !.metaKey = m], TRUE)
                        = matched
              /\ matched => ev.ctrlKey = Flag(combo.ctrlKey)
        /\ ~isMac =>
              /\ \A m \in OptBool :
                    isKeyComboMatch(ev, [combo EXCEPT !.ctrlKey = m], FALSE)
                        = matched
              /\ matched => ev.metaKey = Flag(combo.metaKey)

C10_Witness ==
    /\ Returned /\ isMac /\ matched
    /\ combo = [NoCombo EXCEPT !.key = Some(KeyLower_k),
                               !.ctrlOrCmd = Some(TRUE),
                               !.metaKey = Some(FALSE)]
    /\ ev = Ev(KeyLower_k, TRUE, FALSE, FALSE, FALSE)

====
